---- MODULE Spec2Model ----
(***************************************************************************)
(* LinkedIn finder (find_linkedins.py, the Serper variant, and              *)
(* find_linkedins_cse.py, the Google CSE variant).                          *)
(*                                                                         *)
(* Python strings are sequences of one-character strings, so that          *)
(* substring tests, splitting, lower-casing and f-string formatting are    *)
(* computed and not assumed.                                               *)
(***************************************************************************)
EXTENDS Integers, Sequences, FiniteSets, TLC

VARIABLES
  variant,        \* "serper" (find_linkedins.py) or "cse" (find_linkedins_cse.py)
  pc,             \* position of the run
  fin,            \* arguments of the pure function called on its own
  fout,           \* its result
  records,        \* the loaded input records
  args,           \* the parsed command line: start, limit (<<>> is None), sleep
  idx,            \* index of the record loop (0-based, as in the code)
  queries,        \* synthesized queries of the current record
  qi,             \* position in queries of the current query (1-based)
  attempts,       \* attempts made on the current query
  backoff,        \* seconds of the next backoff wait
  resp,           \* the provider's response to the last search call
  last_cands,     \* cands: candidates extracted from the last successful call
  picked,         \* cand: the selector's answer on cands, <<>> or <<candidate>>
  all_candidates, \* first non-empty candidate list of the record
  best_url,
  match_status,
  query_used,
  out_rows,
  counts,
  trace,          \* sleeps and search calls of the current query, in order
  calls,          \* per called query of the current record: the query text,
                  \* how its last call ended and whether it gave candidates
  checkpoint,     \* rows last written by save_checkpoint (<<>> before the first)
  creds,          \* the credentials of the variant are set in the environment
  exit_code,      \* <<>> while running, <<n>> once the process has exited with n
  tmp_file,       \* the file at out_csv + ".tmp.csv": [exists, lines]
  out_file,       \* the file at out_csv: [exists, lines]
  out_before,     \* the file at out_csv when main was started
  wfor            \* caller of the running save_checkpoint: "checkpoint", "final"

hvars == <<fin, fout>>
rvars == <<queries, qi, attempts, backoff, resp, last_cands, picked,
           all_candidates, best_url, match_status, query_used, trace, calls>>
pvars == <<records, args, idx, out_rows, counts, checkpoint>>
mvars == <<creds, exit_code, tmp_file, out_file, out_before, wfor>>
vars == <<variant, pc, fin, fout, records, args, idx, queries,
          qi, attempts, backoff, resp, last_cands, picked, all_candidates, best_url,
          match_status, query_used, out_rows, counts, trace, calls, checkpoint,
          creds, exit_code, tmp_file, out_file, out_before, wfor>>

----------------------------------------------------------------------------
(* Python str and list primitives *)

Min(a, b) == IF a < b THEN a ELSE b
Max(a, b) == IF a > b THEN a ELSE b

\* characters str.isspace() accepts
WS == {" ", "\t"}

Range(s) == {s[i] : i \in 1..Len(s)}

\* str.lower() on one character
UPPER == <<"A","B","C","D","E","F","G","H","I","J","K","L","M",
           "N","O","P","Q","R","S","T","U","V","W","X","Y","Z">>
LOWER == <<"a","b","c","d","e","f","g","h","i","j","k","l","m",
           "n","o","p","q","r","s","t","u","v","w","x","y","z">>

LowerOf == [c \in Range(UPPER) |-> LOWER[CHOOSE i \in 1..Len(UPPER) : UPPER[i] = c]]

LowerChar(c) == IF c \in DOMAIN LowerOf THEN LowerOf[c] ELSE c

Lower(s) == [i \in 1..Len(s) |-> LowerChar(s[i])]

\* sub in s
Contains(sub, s) ==
  \E u \in {sub}, t \in {s} :
    \E i \in 1..(Len(t) - Len(u) + 1) : SubSeq(t, i, i + Len(u) - 1) = u

\* s.startswith(p)
StartsWith(s, p) ==
  \E t \in {s}, u \in {p} : Len(u) <= Len(t) /\ SubSeq(t, 1, Len(u)) = u

\* s.endswith(p)
EndsWith(s, p) ==
  \E t \in {s}, u \in {p} :
    Len(u) <= Len(t) /\ SubSeq(t, Len(t) - Len(u) + 1, Len(t)) = u

\* s[:n]
Take(s, n) == SubSeq(s, 1, Min(n, Len(s)))

\* s.split(c)[0] for a one-character separator c
RECURSIVE UpTo(_, _)
UpTo(s, c) ==
  IF s = <<>> \/ Head(s) = c THEN <<>> ELSE <<Head(s)>> \o UpTo(Tail(s), c)

\* the maximal runs of characters outside seps, in order
RECURSIVE Tokens(_, _, _)
Tokens(s, seps, cur) ==
  IF s = <<>> THEN (IF cur = <<>> THEN <<>> ELSE <<cur>>)
  ELSE IF Head(s) \in seps
       THEN (IF cur = <<>> THEN <<>> ELSE <<cur>>) \o Tokens(Tail(s), seps, <<>>)
       ELSE Tokens(Tail(s), seps, Append(cur, Head(s)))

\* s.split()
Split(s) == Tokens(s, WS, <<>>)

\* re.split(r"[seps]+", s): a leading or trailing separator run yields an
\* empty string at that end
ReSplit(s, seps) ==
  IF s = <<>> THEN << <<>> >>
  ELSE (IF s[1] \in seps THEN << <<>> >> ELSE <<>>)
       \o Tokens(s, seps, <<>>)
       \o (IF s[Len(s)] \in seps THEN << <<>> >> ELSE <<>>)

\* str(n) for n >= 0
DigitChar(d) ==
  CASE d = 0 -> "0" [] d = 1 -> "1" [] d = 2 -> "2" [] d = 3 -> "3" [] d = 4 -> "4"
    [] d = 5 -> "5" [] d = 6 -> "6" [] d = 7 -> "7" [] d = 8 -> "8" [] OTHER -> "9"

RECURSIVE Str(_)
Str(n) == IF n < 10 THEN <<DigitChar(n)>> ELSE Str(n \div 10) \o <<DigitChar(n % 10)>>

----------------------------------------------------------------------------
(* Text normaliser *)

\* re.sub(r"\s+", " ", s): every whitespace run becomes one space
RECURSIVE CollapseWS(_, _)
CollapseWS(s, inrun) ==
  IF s = <<>> THEN <<>>
  ELSE IF Head(s) \in WS
       THEN (IF inrun THEN <<>> ELSE <<" ">>) \o CollapseWS(Tail(s), TRUE)
       ELSE <<Head(s)>> \o CollapseWS(Tail(s), FALSE)

\* str.strip()
RECURSIVE LStrip(_)
LStrip(s) == IF s # <<>> /\ Head(s) \in WS THEN LStrip(Tail(s)) ELSE s

RECURSIVE RStrip(_)
RStrip(s) ==
  IF s # <<>> /\ s[Len(s)] \in WS THEN RStrip(SubSeq(s, 1, Len(s) - 1)) ELSE s

Strip(s) == RStrip(LStrip(s))

normalize_whitespace(s) == Strip(CollapseWS(s, FALSE))

first_name_from(name) ==
  LET n == normalize_whitespace(name) IN IF n # <<>> THEN UpTo(n, " ") ELSE <<>>

LongToken(t) == Len(t) >= 2
NonEmpty(t) == t # <<>>

tokenize_location(loc) ==
  LET l == normalize_whitespace(loc)
  IN  IF l = <<>> THEN <<>> ELSE SelectSeq(ReSplit(l, WS \cup {","}), LongToken)

tokenize_skill(skill) ==
  LET s == normalize_whitespace(skill)
  IN  IF s = <<>> THEN <<>> ELSE SelectSeq(ReSplit(s, WS), NonEmpty)

----------------------------------------------------------------------------
(* Query synthesizer *)

QUOTE == <<"\"">>
FREELANCER == <<" ","f","r","e","e","l","a","n","c","e","r"," ">>
SITE == <<" ","s","i","t","e",":","l","i","n","k","e","d","i","n",".","c","o","m","/","i","n">>
SP == <<" ">>

\* the quoted name without the test for an empty name
NameQAlways(name) == QUOTE \o normalize_whitespace(name) \o QUOTE

\* f'"{normalize_whitespace(name)}"' if name else ""
NameQ(name) == IF name # <<>> THEN QUOTE \o normalize_whitespace(name) \o QUOTE ELSE <<>>

\* f'"{first_only}"' if first_only else ""
FirstQ(name) ==
  LET first_only == first_name_from(name)
  IN  IF first_only # <<>> THEN QUOTE \o first_only \o QUOTE ELSE <<>>

\* normalize_whitespace((skills or [None])[0] or "")
TopSkill(skills) == IF skills = <<>> THEN <<>> ELSE normalize_whitespace(skills[1])

\* len(name_parts) == 2 and len(name_parts[1]) <= 2 and name_parts[1].endswith('.')
IsTruncated(name) ==
  LET name_parts == Split(name)
  IN  /\ Len(name_parts) = 2
      /\ Len(name_parts[2]) <= 2
      /\ EndsWith(name_parts[2], <<".">>)

\* find_linkedins.py, priority 1: first-name queries of a truncated name
TruncatedStage(name, location, skills) ==
  LET loc_q == normalize_whitespace(location)
      top_skill == TopSkill(skills)
      first_only == first_name_from(name)
      first_q == FirstQ(name)
  IN  IF IsTruncated(name) /\ first_q # <<>>
      THEN (IF loc_q # <<>>
            THEN << first_q \o FREELANCER \o loc_q \o SITE,
                    first_q \o SP \o loc_q \o SITE >>
            ELSE <<>>)
           \o (IF top_skill # <<>> /\ loc_q # <<>>
               THEN << first_q \o SP \o top_skill \o SP \o loc_q \o SITE >>
               ELSE <<>>)
           \o << first_only \o FREELANCER \o loc_q \o SITE >>
      ELSE <<>>

\* find_linkedins_cse.py: the same stage, the unquoted query third
CseTruncatedStage(name, location, skills) ==
  LET loc_q == normalize_whitespace(location)
      top_skill == TopSkill(skills)
      first_only == first_name_from(name)
      first_q == FirstQ(name)
  IN  IF IsTruncated(name) /\ first_q # <<>>
      THEN (IF loc_q # <<>>
            THEN << first_q \o FREELANCER \o loc_q \o SITE,
                    first_q \o SP \o loc_q \o SITE >>
            ELSE <<>>)
           \o << first_only \o FREELANCER \o loc_q \o SITE >>
           \o (IF top_skill # <<>> /\ loc_q # <<>>
               THEN << first_q \o SP \o top_skill \o SP \o loc_q \o SITE >>
               ELSE <<>>)
      ELSE <<>>

\* priority 2: quoted full name with location, role, top skill
FullNameStage(name, location, skills, role) ==
  LET name_q == NameQ(name)
      loc_q == normalize_whitespace(location)
      role_q == normalize_whitespace(role)
      top_skill == TopSkill(skills)
  IN  IF name_q # <<>> /\ loc_q # <<>>
      THEN << name_q \o FREELANCER \o loc_q \o SITE,
              name_q \o SP \o loc_q \o SITE >>
           \o (IF role_q # <<>>
               THEN << name_q \o SP \o role_q \o SP \o loc_q \o SITE >> ELSE <<>>)
           \o (IF top_skill # <<>>
               THEN << name_q \o SP \o top_skill \o SP \o loc_q \o SITE >> ELSE <<>>)
      ELSE <<>>

\* priority 3: quoted full name with country
CountryStage(name, location, country) ==
  LET name_q == NameQ(name)
      loc_q == normalize_whitespace(location)
      country_q == normalize_whitespace(country)
  IN  IF name_q # <<>> /\ country_q # <<>> /\ country_q # loc_q
      THEN << name_q \o SP \o country_q \o SITE >> ELSE <<>>

\* priority 4: quoted full name alone
NameOnlyStage(name) ==
  LET name_q == NameQ(name) IN IF name_q # <<>> THEN << name_q \o SITE >> ELSE <<>>

\* the loop over queries with the seen set: first occurrences, in order
RECURSIVE Dedupe(_, _)
Dedupe(qs, seen) ==
  IF qs = <<>> THEN <<>>
  ELSE IF Head(qs) \in seen THEN Dedupe(Tail(qs), seen)
       ELSE <<Head(qs)>> \o Dedupe(Tail(qs), seen \cup {Head(qs)})

SerperQueryCap == 8
CseQueryCap == 6

\* the list before de-duplication
AssembledQueries(name, location, skills, role, country) ==
  TruncatedStage(name, location, skills)
  \o FullNameStage(name, location, skills, role)
  \o CountryStage(name, location, country)
  \o NameOnlyStage(name)

CseAssembledQueries(name, location, skills, role, country) ==
  CseTruncatedStage(name, location, skills)
  \o FullNameStage(name, location, skills, role)
  \o CountryStage(name, location, country)
  \o NameOnlyStage(name)

\* build_queries without the seen set
BuildWithoutSeen(name, location, skills, role, country) ==
  Take(AssembledQueries(name, location, skills, role, country), SerperQueryCap)

\* build_queries with the quoted-full-name stages assembled first
BuildFullNameFirst(name, location, skills, role, country) ==
  Take(Dedupe(FullNameStage(name, location, skills, role)
              \o CountryStage(name, location, country)
              \o NameOnlyStage(name)
              \o TruncatedStage(name, location, skills), {}),
       SerperQueryCap)

build_queries(name, location, skills, role, country) ==
  Take(Dedupe(AssembledQueries(name, location, skills, role, country), {}),
       SerperQueryCap)

build_cse_queries(name, location, skills, role, country) ==
  Take(Dedupe(CseAssembledQueries(name, location, skills, role, country), {}),
       CseQueryCap)

----------------------------------------------------------------------------
(* Candidate scorer / selector *)

WWW_IN == <<"h","t","t","p","s",":","/","/","w","w","w",".","l","i","n","k","e","d","i","n",".","c","o","m","/","i","n","/">>
BARE_IN == <<"h","t","t","p","s",":","/","/","l","i","n","k","e","d","i","n",".","c","o","m","/","i","n","/">>
WWW_PUB == <<"h","t","t","p","s",":","/","/","w","w","w",".","l","i","n","k","e","d","i","n",".","c","o","m","/","p","u","b","/">>
BARE_PUB == <<"h","t","t","p","s",":","/","/","l","i","n","k","e","d","i","n",".","c","o","m","/","p","u","b","/">>

KW_FREELANCER == <<"f","r","e","e","l","a","n","c","e","r">>
KW_UPWORK == <<"u","p","w","o","r","k">>
KW_SELF_EMPLOYED == <<"s","e","l","f"," ","e","m","p","l","o","y","e","d">>
KW_SELF_EMPLOYED_DASH == <<"s","e","l","f","-","e","m","p","l","o","y","e","d">>
KW_CONSULTANT == <<"c","o","n","s","u","l","t","a","n","t">>

SerperContextKeywords ==
  {KW_FREELANCER, KW_UPWORK, KW_SELF_EMPLOYED, KW_SELF_EMPLOYED_DASH, KW_CONSULTANT}
CseContextKeywords == {KW_FREELANCER, KW_UPWORK, KW_CONSULTANT, KW_SELF_EMPLOYED}

\* f"{title} {snippet}", both lower-cased
CombinedText(cand) == Lower(cand.title) \o SP \o Lower(cand.snippet)

\* if fn in title
GatePasses(first_name, cand) == Contains(Lower(first_name), Lower(cand.title))

\* sum(1 for part in name_parts if len(part) > 1 and part in combined_text)
MatchingParts(full_name, cand) ==
  LET name_parts == Split(Lower(full_name))
  IN  Cardinality({i \in 1..Len(name_parts) :
                     Len(name_parts[i]) > 1 /\ Contains(name_parts[i], CombinedText(cand))})

\* the bonus for parts of the full name; both is 3 in find_linkedins.py and
\* 4 in find_linkedins_cse.py
NamePartsBonus(full_name, cand, both) ==
  LET name_parts == Split(Lower(full_name))
      matching_parts == MatchingParts(full_name, cand)
  IN  IF Len(name_parts) > 1
      THEN (IF matching_parts >= 2 THEN both
            ELSE IF matching_parts = 1 /\ Len(name_parts[2]) > 2 THEN 1
            ELSE 0)
      ELSE 0

\* min(location_matches * 2, 4) when a location token matches
LocationBonus(loc_tokens, cand) ==
  LET location_matches ==
        Cardinality({i \in 1..Len(loc_tokens) :
                       Contains(Lower(loc_tokens[i]), CombinedText(cand))})
  IN  IF location_matches > 0 THEN Min(location_matches * 2, 4) ELSE 0

ContextBonus(keywords, cand) ==
  IF \E k \in keywords : Contains(k, CombinedText(cand)) THEN 2 ELSE 0

\* any(part in url for part in full_name_lower.split() if len(part) > 2)
NamePartInUrl(full_name, cand) ==
  LET name_parts == Split(Lower(full_name))
  IN  \E i \in 1..Len(name_parts) :
        Len(name_parts[i]) > 2 /\ Contains(name_parts[i], Lower(cand.url))

SerperUrlBonus(full_name, first_name, cand) ==
  LET fn == Lower(first_name)
      url == Lower(cand.url)
  IN  IF StartsWith(url, WWW_IN \o fn) \/ StartsWith(url, BARE_IN \o fn) THEN 2
      ELSE IF NamePartInUrl(full_name, cand) THEN 1
      ELSE 0

CseUrlBonus(full_name, first_name, cand) ==
  LET fn == Lower(first_name)
      url == Lower(cand.url)
  IN  IF NamePartInUrl(full_name, cand) THEN 2
      ELSE IF StartsWith(url, WWW_IN \o fn) THEN 1
      ELSE 0

\* role_tokens and any(t.lower() in combined_text for t in role_tokens)
TokenBonus(tokens, cand) ==
  IF \E i \in 1..Len(tokens) : Contains(Lower(tokens[i]), CombinedText(cand))
  THEN 1 ELSE 0

\* the score of a candidate that passes the gate, find_linkedins.py
SerperScore(full_name, first_name, loc_tokens, skill_tokens, cand, role_tokens) ==
  3 + NamePartsBonus(full_name, cand, 3)
    + LocationBonus(loc_tokens, cand)
    + ContextBonus(SerperContextKeywords, cand)
    + SerperUrlBonus(full_name, first_name, cand)
    + TokenBonus(role_tokens, cand)
    + TokenBonus(skill_tokens, cand)

\* the score of a candidate that passes the gate, find_linkedins_cse.py
CseScore(full_name, first_name, loc_tokens, skill_tokens, cand, role_tokens) ==
  3 + NamePartsBonus(full_name, cand, 4)
    + LocationBonus(loc_tokens, cand)
    + ContextBonus(CseContextKeywords, cand)
    + CseUrlBonus(full_name, first_name, cand)
    + TokenBonus(role_tokens, cand)
    + TokenBonus(skill_tokens, cand)

Threshold == 5

\* what the loop body computes for each candidate, in order: whether it
\* passes the gate, and its score
RECURSIVE SerperScored(_, _, _, _, _, _)
SerperScored(full_name, first_name, loc_tokens, skill_tokens, candidates, role_tokens) ==
  IF candidates = <<>> THEN <<>>
  ELSE << [passes |-> GatePasses(first_name, Head(candidates)),
           score |-> SerperScore(full_name, first_name, loc_tokens, skill_tokens,
                                 Head(candidates), role_tokens)] >>
       \o SerperScored(full_name, first_name, loc_tokens, skill_tokens,
                       Tail(candidates), role_tokens)

RECURSIVE CseScored(_, _, _, _, _, _)
CseScored(full_name, first_name, loc_tokens, skill_tokens, candidates, role_tokens) ==
  IF candidates = <<>> THEN <<>>
  ELSE << [passes |-> GatePasses(first_name, Head(candidates)),
           score |-> CseScore(full_name, first_name, loc_tokens, skill_tokens,
                              Head(candidates), role_tokens)] >>
       \o CseScored(full_name, first_name, loc_tokens, skill_tokens,
                    Tail(candidates), role_tokens)

\* the loop's tracking of best_candidate and best_score, and the return;
\* the result is <<>> for None and <<cand>> for a candidate
BestCandidate(candidates, scored) ==
  LET after[i \in 0..Len(candidates)] ==
        IF i = 0 THEN [best_candidate |-> <<>>, best_score |-> 0]
        ELSE IF ~scored[i].passes THEN after[i - 1]
        ELSE IF scored[i].score > after[i - 1].best_score
             THEN [best_candidate |-> <<candidates[i]>>, best_score |-> scored[i].score]
             ELSE after[i - 1]
      last == after[Len(candidates)]
  IN  IF last.best_score >= Threshold THEN last.best_candidate ELSE <<>>

\* pick_candidate without the first-name gate
PickWithoutGate(full_name, first_name, loc_tokens, skill_tokens, candidates, role_tokens) ==
  LET sc == SerperScored(full_name, first_name, loc_tokens, skill_tokens,
                         candidates, role_tokens)
  IN  BestCandidate(candidates, [i \in 1..Len(sc) |-> [sc[i] EXCEPT !.passes = TRUE]])

\* pick_candidate with "score >= best_score": the last of equal scores wins
PickLastOfTies(full_name, first_name, loc_tokens, skill_tokens, candidates, role_tokens) ==
  LET sc == SerperScored(full_name, first_name, loc_tokens, skill_tokens,
                         candidates, role_tokens)
      after[i \in 0..Len(candidates)] ==
        IF i = 0 THEN [best_candidate |-> <<>>, best_score |-> 0]
        ELSE IF ~sc[i].passes THEN after[i - 1]
        ELSE IF sc[i].score >= after[i - 1].best_score
             THEN [best_candidate |-> <<candidates[i]>>, best_score |-> sc[i].score]
             ELSE after[i - 1]
      last == after[Len(candidates)]
  IN  IF last.best_score >= Threshold THEN last.best_candidate ELSE <<>>

pick_candidate(full_name, first_name, loc_tokens, skill_tokens, candidates, role_tokens) ==
  CHOOSE res \in
    { BestCandidate(cs, sc) :
        cs \in {candidates},
        sc \in {SerperScored(full_name, first_name, loc_tokens, skill_tokens,
                             candidates, role_tokens)} } : TRUE

pick_best_linkedin_candidate(full_name, first_name, loc_tokens, skill_tokens, candidates, role_tokens) ==
  CHOOSE res \in
    { BestCandidate(cs, sc) :
        cs \in {candidates},
        sc \in {CseScored(full_name, first_name, loc_tokens, skill_tokens,
                          candidates, role_tokens)} } : TRUE

----------------------------------------------------------------------------
(* Search provider call and candidate extractor *)

SERPER_ERROR == <<"S","e","r","p","e","r"," ","e","r","r","o","r"," ">>
CSE_ERROR == <<"G","o","o","g","l","e"," ","C","S","E"," ","e","r","r","o","r"," ">>
COLON_SP == <<":"," ">>
BodyCut == 200

\* A response is [kind, status, body, payload]: kind "http" carries a status
\* and a body text, kind "exception" is a transport failure whose message
\* is body. A payload is [shape, items]: the result list is a list, absent
\* or null; an item is [mapping, link, title, snippet], mapping FALSE for
\* an item that is not a JSON object.

\* raise RuntimeError(f"Serper error {resp.status_code}: {resp.text[:200]}")
search_serper(r) ==
  IF r.kind = "exception" THEN [raised |-> TRUE, msg |-> r.body, json |-> r.payload]
  ELSE IF r.status >= 400
       THEN [raised |-> TRUE,
             msg |-> SERPER_ERROR \o Str(r.status) \o COLON_SP \o Take(r.body, BodyCut),
             json |-> r.payload]
       ELSE [raised |-> FALSE, msg |-> <<>>, json |-> r.payload]

search_google_cse(r) ==
  IF r.kind = "exception" THEN [raised |-> TRUE, msg |-> r.body, json |-> r.payload]
  ELSE IF r.status >= 400
       THEN [raised |-> TRUE,
             msg |-> CSE_ERROR \o Str(r.status) \o COLON_SP \o Take(r.body, BodyCut),
             json |-> r.payload]
       ELSE [raised |-> FALSE, msg |-> <<>>, json |-> r.payload]

MaxCandidates == 5

SerperPrefixes == {WWW_IN, BARE_IN, WWW_PUB, BARE_PUB}
CsePrefixes == {WWW_IN, BARE_IN}

\* link.lower().split("?")[0].split("#")[0]
CleanLink(link) == UpTo(UpTo(Lower(link), "?"), "#")

\* the loop over the items: [raised, cands]; item.get raises on an item
\* that is not a mapping
RECURSIVE ExtractLoop(_, _, _)
ExtractLoop(items, acc, prefixes) ==
  IF items = <<>> THEN [raised |-> FALSE, cands |-> acc]
  ELSE LET item == Head(items)
           link_l == CleanLink(item.link)
       IN  IF ~item.mapping THEN [raised |-> TRUE, cands |-> acc]
           ELSE IF ~(\E p \in prefixes : StartsWith(link_l, p))
                THEN ExtractLoop(Tail(items), acc, prefixes)
                ELSE LET acc2 == Append(acc, [url |-> link_l, title |-> item.title,
                                              snippet |-> item.snippet])
                     IN  IF Len(acc2) >= MaxCandidates
                         THEN [raised |-> FALSE, cands |-> acc2]
                         ELSE ExtractLoop(Tail(items), acc2, prefixes)

\* org = serp_json.get("organic") or []
extract_candidates(serp_json) ==
  ExtractLoop(IF serp_json.shape = "list" THEN serp_json.items ELSE <<>>,
              <<>>, SerperPrefixes)

\* items = cse_json.get("items", []): a null list is iterated and raises
extract_linkedin_candidates(cse_json) ==
  IF cse_json.shape = "null" THEN [raised |-> TRUE, cands |-> <<>>]
  ELSE ExtractLoop(IF cse_json.shape = "list" THEN cse_json.items ELSE <<>>,
                   <<>>, CsePrefixes)

\* str(e) of the exception an ill-formed payload raises
EXTRACT_ERROR == <<"o","b","j","e","c","t"," ","h","a","s"," ","n","o"," ","a","t","t","r","i","b","u","t","e"," ","g","e","t">>

----------------------------------------------------------------------------
(* Identity of a record.  A record is [externalId, name, first_name,      *)
(* last_name, location, city, state, country, title, skills].              *)

\* ", ".join(parts)
RECURSIVE JoinComma(_)
JoinComma(parts) ==
  IF parts = <<>> THEN <<>>
  ELSE IF Len(parts) = 1 THEN parts[1]
  ELSE parts[1] \o <<",", " ">> \o JoinComma(Tail(parts))

DeriveName(r) ==
  IF Strip(r.name) # <<>> THEN Strip(r.name)
  ELSE Strip(Strip(r.first_name) \o SP \o Strip(r.last_name))

DeriveLocation(r) ==
  IF Strip(r.location) # <<>> THEN Strip(r.location)
  ELSE JoinComma(SelectSeq(<<Strip(r.city), Strip(r.state), Strip(r.country)>>, NonEmpty))

DeriveRole(r) == Strip(r.title)
DeriveCountry(r) == Strip(r.country)
\* [str(s) for s in skills_raw if s]
DeriveSkills(r) == SelectSeq(r.skills, NonEmpty)

Skill(skills, i) == IF Len(skills) >= i THEN skills[i] ELSE <<>>

\* loc_tokens: find_linkedins.py adds the country's tokens
LocTokens(v, r) ==
  IF v = "serper"
  THEN tokenize_location(DeriveLocation(r)) \o tokenize_location(DeriveCountry(r))
  ELSE tokenize_location(DeriveLocation(r))

SkillTokens(r) ==
  tokenize_skill(Skill(DeriveSkills(r), 1)) \o tokenize_skill(Skill(DeriveSkills(r), 2))

RoleTokens(r) == tokenize_skill(DeriveRole(r))

BuildFor(v, r) ==
  IF v = "serper"
  THEN build_queries(DeriveName(r), DeriveLocation(r), DeriveSkills(r),
                     DeriveRole(r), DeriveCountry(r))
  ELSE build_cse_queries(DeriveName(r), DeriveLocation(r), DeriveSkills(r),
                         DeriveRole(r), DeriveCountry(r))

SearchFor(v, r) == IF v = "serper" THEN search_serper(r) ELSE search_google_cse(r)

ExtractFor(v, json) ==
  IF v = "serper" THEN extract_candidates(json) ELSE extract_linkedin_candidates(json)

\* the selector on the identity of record r (each argument evaluated once)
PickFor(v, r, cs) ==
  CHOOSE res \in
    { IF v = "serper"
      THEN pick_candidate(n, first_name_from(n), lt, st, c, rt)
      ELSE pick_best_linkedin_candidate(n, first_name_from(n), lt, st, c, rt) :
        n \in {DeriveName(r)}, lt \in {LocTokens(v, r)}, st \in {SkillTokens(r)},
        c \in {cs}, rt \in {RoleTokens(r)} } : TRUE

----------------------------------------------------------------------------
(* Inputs *)

S_EMPTY == <<>>
S_JO == <<"J","o">>
S_BOB == <<"B","o","b">>
S_DOE == <<"D","o","e">>
S_JO_D == <<"J","o"," ","D",".">>
S_JO_2SP_D == <<"J","o"," "," ","D",".">>
S_JO_DOE == <<"J","o"," ","D","o","e">>
S_JO_DOT == <<"J","o"," ",".">>
S_BLANK == <<" ">>
S_GA == <<"G","A">>
S_US == <<"U","S">>
S_GA_US == <<"G","A",","," "," ","U","S">>
S_SQL == <<"S","Q","L">>
S_DEV == <<"D","e","v">>
S_FREELANCER == <<"f","r","e","e","l","a","n","c","e","r">>

Variants == {"serper", "cse"}

\* arguments of the query synthesizer
BuildInputs ==
  [name : {S_EMPTY, S_BLANK, S_JO, S_JO_D, S_JO_2SP_D, S_JO_DOE, S_JO_DOT},
   location : {S_EMPTY, S_GA, S_GA_US},
   skills : {<<>>, <<S_SQL>>, <<S_FREELANCER>>, <<S_DEV, S_SQL>>},
   role : {S_EMPTY, S_DEV},
   country : {S_EMPTY, S_US, S_GA}]

\* candidates offered to the selector
C_STRONG == [url |-> WWW_IN \o <<"j","o","-","d","o","e">>, title |-> <<"J","o"," ","D","o","e">>, snippet |-> <<"F","r","e","e","l","a","n","c","e","r"," ","G","A">>]
C_WEAK == [url |-> WWW_IN \o <<"x","1">>, title |-> <<"J","O">>, snippet |-> <<>>]
C_WRONG == [url |-> WWW_IN \o <<"j","o","-","d","o","e">>, title |-> <<"B","o","b">>,
            snippet |-> <<"J","o"," ","D","o","e"," ","u","p","w","o","r","k"," ","G","A"," ","U","S"," ","S","Q","L"," ","D","e","v">>]
C_MID == [url |-> BARE_IN \o <<"j","o">>, title |-> <<"j","o"," ","d">>, snippet |-> <<"U","S">>]
C_MID2 == [url |-> BARE_IN \o <<"j","o","2">>, title |-> <<"j","o"," ","d">>, snippet |-> <<"U","S">>]
C_PUB == [url |-> WWW_PUB \o <<"d","o","e">>, title |-> <<"J","o">>, snippet |-> <<"c","o","n","s","u","l","t","a","n","t"," ","s","q","l">>]

CandPool == {C_STRONG, C_WEAK, C_WRONG, C_MID, C_MID2, C_PUB}

MaxCands == 2

SeqsUpTo(S, n) == UNION {[1..k -> S] : k \in 0..n}

\* arguments of the selector
PickInputs ==
  [full_name : {S_JO_DOE, S_JO_D},
   first_name : {S_JO, S_EMPTY, S_BOB},
   loc_tokens : {<<>>, <<S_GA, S_US>>},
   skill_tokens : {<<>>, <<S_SQL>>},
   candidates : SeqsUpTo(CandPool, MaxCands),
   role_tokens : {<<>>, <<S_DEV>>}]

\* input records
BlankRecord ==
  [externalId |-> <<>>, name |-> <<>>, first_name |-> <<>>, last_name |-> <<>>,
   location |-> <<>>, city |-> <<>>, state |-> <<>>, country |-> <<>>,
   title |-> <<>>, skills |-> <<>>]

R_SPLIT == [BlankRecord EXCEPT !.externalId = <<"1">>, !.first_name = S_JO,
                               !.last_name = <<"D","o","e"," ">>, !.country = S_US]
R_EMPTY == [BlankRecord EXCEPT !.externalId = <<"2">>, !.name = S_BLANK,
                               !.location = S_GA]
R_TRUNC == [BlankRecord EXCEPT !.externalId = <<"3">>, !.name = S_JO_D]
R_ONE == [BlankRecord EXCEPT !.externalId = <<"4">>, !.name = S_JO]

InputFiles == {<<>>, <<R_SPLIT, R_EMPTY, R_ONE>>, <<R_TRUNC, R_ONE>>}

MaxStart == 1
MaxLimit == 2
DefaultSleep == 2

ArgsPool ==
  [start : 0..MaxStart,
   limit : {<<>>} \cup {<<n>> : n \in 0..MaxLimit},
   sleep : {DefaultSleep}]
  \cup {[start |-> -1, limit |-> <<1>>, sleep |-> DefaultSleep]}

\* result items of the provider
I_STRONG == [mapping |-> TRUE, link |-> <<"h","t","t","p","s",":","/","/","w","w","w",".","L","i","n","k","e","d","I","n",".","c","o","m","/","i","n","/","J","o","-","D","o","e","?","t","r","k","=","x">>,
             title |-> <<"J","o"," ","D","o","e">>, snippet |-> <<"F","r","e","e","l","a","n","c","e","r"," ","G","A">>]
I_WEAK == [mapping |-> TRUE, link |-> WWW_IN \o <<"x","1">>, title |-> <<"J","O">>, snippet |-> <<>>]
I_WRONG == [mapping |-> TRUE, link |-> WWW_IN \o <<"j","o","-","d","o","e">>, title |-> <<"B","o","b">>,
            snippet |-> <<"J","o"," ","D","o","e"," ","u","p","w","o","r","k"," ","G","A">>]
I_COMPANY == [mapping |-> TRUE, link |-> <<"h","t","t","p","s",":","/","/","w","w","w",".","l","i","n","k","e","d","i","n",".","c","o","m","/","c","o","m","p","a","n","y","/","j","o">>,
              title |-> <<"J","o"," ","D","o","e">>, snippet |-> <<"u","p","w","o","r","k">>]
I_PUB == [mapping |-> TRUE, link |-> BARE_PUB \o <<"j","o","#","t","o","p">>, title |-> <<"J","o"," ","D">>,
          snippet |-> <<"c","o","n","s","u","l","t","a","n","t">>]
I_STRING == [mapping |-> FALSE, link |-> <<>>, title |-> <<>>, snippet |-> <<>>]

Payloads ==
  { [shape |-> "list", items |-> <<>>],
    [shape |-> "absent", items |-> <<>>],
    [shape |-> "null", items |-> <<>>],
    [shape |-> "list", items |-> <<I_COMPANY>>],
    [shape |-> "list", items |-> <<I_WEAK>>],
    [shape |-> "list", items |-> <<I_WRONG, I_WEAK>>],
    [shape |-> "list", items |-> <<I_COMPANY, I_WEAK, I_STRONG>>],
    [shape |-> "list", items |-> <<I_PUB>>],
    [shape |-> "list", items |-> <<I_STRING>>] }

NoPayload == [shape |-> "absent", items |-> <<>>]

RetryableStatuses == {429, 500, 502, 503, 504}
\* the retryable statuses the provider answers with here
RetryPool == {429, 503}

B_QUOTA == <<"q","u","o","t","a"," ","5","0","0","0"," ","e","x","c","e","e","d","e","d">>
B_DENIED == <<"d","e","n","i","e","d">>
E_TIMEOUT == <<"R","e","a","d"," ","t","i","m","e","d"," ","o","u","t">>

Responses ==
  {[kind |-> "http", status |-> 200, body |-> <<>>, payload |-> p] : p \in Payloads}
  \cup {[kind |-> "http", status |-> st, body |-> <<>>, payload |-> NoPayload] :
          st \in RetryPool}
  \cup {[kind |-> "http", status |-> 400, body |-> b, payload |-> NoPayload] :
          b \in {B_DENIED, B_QUOTA}}
  \cup {[kind |-> "http", status |-> 403, body |-> B_DENIED, payload |-> NoPayload]}
  \cup {[kind |-> "exception", status |-> 0, body |-> E_TIMEOUT, payload |-> NoPayload]}

NoResponse == [kind |-> "none", status |-> 0, body |-> <<>>, payload |-> NoPayload]

----------------------------------------------------------------------------
(* process_records *)

InitialBackoff == 5
BackoffCap == 60
MaxAttempts == 3

ZeroCounts ==
  [processed |-> 0, matched |-> 0, needs_review |-> 0, not_found |-> 0, error |-> 0]

\* start = max(0, int(args.start))
Start == Max(0, args.start)

\* end_idx without the start offset
EndIdxFromZero == IF args.limit = <<>> THEN Len(records) ELSE args.limit[1]

\* end_idx = start + limit if limit is not None else len(records)
EndIdx == IF args.limit = <<>> THEN Len(records) ELSE Start + args.limit[1]

\* the record at loop index idx
CurRec == records[idx + 1]

\* any(code in msg for code in ["429", "500", "502", "503", "504"])
HasRetryCode(msg) == \E st \in RetryableStatuses : Contains(Str(st), msg)

Event(ev, n) == [ev |-> ev, q |-> qi, n |-> n]

RecordIdle ==
  /\ queries = <<>>
  /\ qi = 0
  /\ attempts = 0
  /\ backoff = 0
  /\ resp = NoResponse
  /\ last_cands = <<>>
  /\ picked = <<>>
  /\ all_candidates = <<>>
  /\ best_url = <<>>
  /\ match_status = "not_found"
  /\ query_used = <<>>
  /\ trace = <<>>
  /\ calls = <<>>

HarnessIdle == fin = <<>> /\ fout = <<>>

NoFile == [exists |-> FALSE, lines |-> <<>>]

\* nothing of main is running: the credentials are set, no file is touched
MainIdle ==
  /\ creds = TRUE
  /\ exit_code = <<>>
  /\ tmp_file = NoFile
  /\ out_file = NoFile
  /\ out_before = NoFile
  /\ wfor = "none"

ProcessIdle ==
  /\ records = <<>>
  /\ args = [start |-> 0, limit |-> <<>>, sleep |-> DefaultSleep]
  /\ idx = 0
  /\ out_rows = <<>>
  /\ counts = ZeroCounts
  /\ checkpoint = <<>>
  /\ MainIdle
  /\ RecordIdle

Init ==
  /\ variant \in Variants
  /\ pc = "loop"
  /\ HarnessIdle
  /\ records \in InputFiles
  /\ args \in ArgsPool
  /\ idx = Max(0, args.start)
  /\ out_rows = <<>>
  /\ counts = ZeroCounts
  /\ checkpoint = <<>>
  /\ MainIdle
  /\ RecordIdle

\* for idx in range(start, min(len(records), end_idx)): the derivations, the
\* synthesizer and the reset of the per-record locals
BeginRecord ==
  /\ pc = "loop"
  /\ idx < Min(Len(records), EndIdx)
  /\ queries' = BuildFor(variant, CurRec)
  /\ best_url' = <<>>
  /\ match_status' = "not_found"
  /\ query_used' = <<>>
  /\ all_candidates' = <<>>
  /\ qi' = IF queries' = <<>> THEN 0 ELSE 1
  /\ attempts' = 0
  /\ backoff' = 0
  /\ resp' = NoResponse
  /\ last_cands' = <<>>
  /\ picked' = <<>>
  /\ trace' = <<>>
  /\ calls' = <<>>
  /\ pc' = IF queries' = <<>> THEN "emit" ELSE "query"
  /\ UNCHANGED <<variant, hvars, mvars, pvars>>

\* for q in queries: the politeness sleep and the reset of the retry state
QueryStart ==
  /\ pc = "query"
  /\ trace' = <<Event("sleep", Max(0, args.sleep))>>
  /\ backoff' = InitialBackoff
  /\ attempts' = 0
  /\ pc' = "attempt"
  /\ UNCHANGED <<variant, hvars, mvars, pvars, queries, qi, resp, last_cands, picked,
                 all_candidates, best_url, match_status, query_used, calls>>

\* the query loop left on error only
AfterQueryNoStop(status) ==
  IF status = "error" \/ qi = Len(queries)
  THEN pc' = "emit" /\ qi' = qi
  ELSE pc' = "query" /\ qi' = qi + 1

\* what follows the inner loop: leave on matched or error, else next query
AfterQuery(status) ==
  IF status \in {"matched", "error"} \/ qi = Len(queries)
  THEN pc' = "emit" /\ qi' = qi
  ELSE pc' = "query" /\ qi' = qi + 1

\* the search call, the extraction and the selection on answer r:
\* [raised, msg, cands, found]; found is <<>> when the call or the
\* extraction raised
SerperTry(r) ==
  LET s == search_serper(r)
      ex == extract_candidates(s.json)
  IN  IF s.raised
      THEN [raised |-> TRUE, msg |-> s.msg, cands |-> <<>>, found |-> <<>>]
      ELSE IF ex.raised
      THEN [raised |-> TRUE, msg |-> EXTRACT_ERROR, cands |-> <<>>, found |-> <<>>]
      ELSE [raised |-> FALSE, msg |-> <<>>, cands |-> ex.cands,
            found |-> PickFor("serper", CurRec, ex.cands)]

CseTry(r) ==
  LET s == search_google_cse(r)
      ex == extract_linkedin_candidates(s.json)
  IN  IF s.raised
      THEN [raised |-> TRUE, msg |-> s.msg, cands |-> <<>>, found |-> <<>>]
      ELSE IF ex.raised
      THEN [raised |-> TRUE, msg |-> EXTRACT_ERROR, cands |-> <<>>, found |-> <<>>]
      ELSE [raised |-> FALSE, msg |-> <<>>, cands |-> ex.cands,
            found |-> PickFor("cse", CurRec, ex.cands)]

\* the log entry of a call on the current query: a retried call is replaced
\* by the call that follows it
Logged(outcome, nonempty) ==
  LET entry == [query |-> queries[qi], outcome |-> outcome, nonempty |-> nonempty]
  IN  IF attempts = 0 THEN Append(calls, entry)
      ELSE [calls EXCEPT ![Len(calls)] = entry]

\* all_candidates overwritten by every call
KeepLast(kept, cs) == cs

\* all_candidates replaced by every later non-empty candidate list
KeepLastNonEmpty(kept, cs) == IF cs # <<>> THEN cs ELSE kept

\* if not all_candidates and cands: all_candidates = cands[:]
KeepFirst(kept, cs) == IF kept = <<>> /\ cs # <<>> THEN cs ELSE kept

\* a backoff that does not grow
SameBackoff(b) == b

\* backoff *= 2
NextBackoff(b) == b * 2

\* the body of the try block when nothing raised
Scored(t) ==
  /\ last_cands' = t.cands
  /\ all_candidates' = KeepFirst(all_candidates, t.cands)
  /\ calls' = Logged(IF t.found # <<>> THEN "matched" ELSE "abstained", t.cands # <<>>)
  /\ picked' = t.found
  /\ IF t.found # <<>>
     THEN /\ best_url' = t.found[1].url
          /\ match_status' = "matched"
          /\ query_used' = queries[qi]
          /\ AfterQuery("matched")
     ELSE /\ UNCHANGED <<best_url, match_status, query_used>>
          /\ AfterQuery(match_status)

\* match_status = "error"; query_used = q
Failed ==
  /\ match_status' = "error"
  /\ query_used' = queries[qi]
  /\ AfterQuery("error")
  /\ calls' = Logged("raised", FALSE)
  /\ UNCHANGED <<last_cands, picked, all_candidates, best_url>>

\* one pass of the retry loop of find_linkedins.py
SerperAttempt(r) ==
  \E t \in {SerperTry(r)} :
    /\ attempts' = attempts + 1
    /\ resp' = r
    /\ IF ~t.raised
       THEN /\ Scored(t)
            /\ trace' = Append(trace, Event("call", r.status))
            /\ backoff' = backoff
       ELSE IF HasRetryCode(t.msg) /\ attempts' < MaxAttempts
       THEN /\ trace' = trace \o <<Event("call", r.status),
                                   Event("backoff", Min(BackoffCap, backoff))>>
            /\ backoff' = NextBackoff(backoff)
            /\ calls' = Logged("retried", FALSE)
            /\ pc' = "attempt"
            /\ UNCHANGED <<qi, last_cands, picked, all_candidates,
                           best_url, match_status, query_used>>
       ELSE /\ Failed
            /\ trace' = Append(trace, Event("call", r.status))
            /\ backoff' = backoff

\* the try block of find_linkedins_cse.py: no retry
CseAttempt(r) ==
  \E t \in {CseTry(r)} :
    /\ attempts' = attempts + 1
    /\ resp' = r
    /\ trace' = Append(trace, Event("call", r.status))
    /\ backoff' = backoff
    /\ IF ~t.raised THEN Scored(t) ELSE Failed

\* a search call on the current query with the provider's answer r
Attempt ==
  /\ pc = "attempt"
  /\ \E r \in Responses :
       IF variant = "serper" THEN SerperAttempt(r) ELSE CseAttempt(r)
  /\ UNCHANGED <<variant, hvars, mvars, pvars, queries>>

\* the row carrying the url of the first audit candidate when nothing matched
OutRowWithAuditUrl(status, used) ==
  [externalId |-> CurRec.externalId,
   name |-> DeriveName(CurRec),
   location |-> DeriveLocation(CurRec),
   linkedin_url |-> IF best_url = <<>> /\ all_candidates # <<>>
                    THEN all_candidates[1].url ELSE best_url,
   match_status |-> status,
   query_used |-> used,
   candidates_json |-> Take(all_candidates, MaxCandidates)]

\* the output row of the current record
OutRow(status, used) ==
  [externalId |-> CurRec.externalId,
   name |-> DeriveName(CurRec),
   location |-> DeriveLocation(CurRec),
   linkedin_url |-> best_url,
   match_status |-> status,
   query_used |-> used,
   candidates_json |-> Take(all_candidates, MaxCandidates)]

SerperCheckpointEvery == 100
CseCheckpointEvery == 50
CheckpointEvery == IF variant = "serper" THEN SerperCheckpointEvery ELSE CseCheckpointEvery

\* after the query loop: needs_review, the row, the counts, and the call of
\* save_checkpoint every CheckpointEvery processed records
EmitRow ==
  LET review == match_status = "not_found" /\ all_candidates # <<>>
      status == IF review THEN "needs_review" ELSE match_status
      used == IF review /\ query_used = <<>> /\ queries # <<>>
              THEN queries[1] ELSE query_used
  IN  /\ pc = "emit"
      /\ out_rows' = Append(out_rows, OutRow(status, used))
      /\ counts' = [counts EXCEPT !.processed = @ + 1, ![status] = @ + 1]
      /\ match_status' = status
      /\ query_used' = used
      /\ idx' = idx + 1
      /\ IF counts'.processed % CheckpointEvery = 0
         THEN pc' = "w_open" /\ wfor' = "checkpoint"
         ELSE pc' = "loop" /\ wfor' = wfor
      /\ UNCHANGED <<variant, hvars, records, args, checkpoint, creds, exit_code,
                     tmp_file, out_file, out_before, queries, qi, attempts, backoff,
                     resp, last_cands, picked, all_candidates, best_url, trace, calls>>

\* return out_rows, counts
Return ==
  /\ pc = "loop"
  /\ ~(idx < Min(Len(records), EndIdx))
  /\ pc' = "done"
  /\ UNCHANGED <<variant, hvars, mvars, pvars, rvars>>

Next == BeginRecord \/ QueryStart \/ Attempt \/ EmitRow \/ Return

Spec == Init /\ [][Next]_vars

----------------------------------------------------------------------------
(* main, save_checkpoint and write_final.  A file is [exists, lines]; its  *)
(* lines are the header and one line per row.  A crash keeps the files as  *)
(* they are: what a buffered write has not yet put on disk makes the file  *)
(* one of the shorter contents an earlier crash shows.                     *)

HEADERS == <<"externalId", "name", "location", "linkedin_url", "match_status",
             "query_used", "candidates_json">>

\* {k: r.get(k, "") for k in headers}
RowLine(r) == [k \in Range(HEADERS) |-> IF k \in DOMAIN r THEN r[k] ELSE <<>>]

MaxRecords == 100

\* numbers of records of the input: none, one, and enough for checkpoints
RecordCounts == {0, 1, MaxRecords}

\* n records without a name: they end in not_found without a search call
NamelessRecords(n) == [i \in 1..n |-> [BlankRecord EXCEPT !.externalId = Str(i)]]

\* an output file left by an earlier run
OldFile ==
  [exists |-> TRUE,
   lines |-> <<HEADERS, RowLine([externalId |-> <<"0">>, match_status |-> "error"])>>]

InitMain ==
  /\ variant \in Variants
  /\ pc = "main"
  /\ HarnessIdle
  /\ records \in {NamelessRecords(n) : n \in RecordCounts}
  /\ args = [start |-> 0, limit |-> <<>>, sleep |-> DefaultSleep]
  /\ idx = 0
  /\ out_rows = <<>>
  /\ counts = ZeroCounts
  /\ checkpoint = <<>>
  /\ creds \in BOOLEAN
  /\ exit_code = <<>>
  /\ tmp_file = NoFile
  /\ out_file \in {NoFile, OldFile}
  /\ out_before = out_file
  /\ wfor = "none"
  /\ RecordIdle

\* sys.exit(n)
Exit(n) == exit_code' = <<n>> /\ pc' = "exited"

\* load_records raises: sys.exit(1)
LoadFails ==
  /\ pc = "main"
  /\ Exit(1)
  /\ UNCHANGED <<variant, hvars, pvars, rvars, creds, tmp_file, out_file,
                 out_before, wfor>>

\* load_records returns; with no record main calls write_final([], args.out)
\* and never calls process_records
Loaded ==
  /\ pc = "main"
  /\ IF records = <<>>
     THEN pc' = "w_open" /\ wfor' = "final"
     ELSE pc' = "process" /\ wfor' = wfor
  /\ UNCHANGED <<variant, hvars, pvars, rvars, creds, exit_code, tmp_file,
                 out_file, out_before>>

\* process_records: require_api_key / require_cse_credentials raises
\* RuntimeError, which main turns into sys.exit(2); else the loop starts
RequireCredentials ==
  /\ pc = "process"
  /\ IF creds
     THEN pc' = "loop" /\ idx' = Start /\ exit_code' = exit_code
     ELSE Exit(2) /\ idx' = idx
  /\ UNCHANGED <<variant, hvars, rvars, records, args, out_rows, counts,
                 checkpoint, creds, tmp_file, out_file, out_before, wfor>>

\* main: write_final(rows, args.out) once process_records has returned
CallWriteFinal ==
  /\ pc = "done"
  /\ pc' = "w_open"
  /\ wfor' = "final"
  /\ UNCHANGED <<variant, hvars, pvars, rvars, creds, exit_code, tmp_file,
                 out_file, out_before>>

\* write_final truncating the output file itself when it starts to write
OpenOutInPlace ==
  /\ pc = "w_open"
  /\ tmp_file' = [exists |-> TRUE, lines |-> <<>>]
  /\ out_file' = IF wfor = "final" THEN [exists |-> TRUE, lines |-> <<>>] ELSE out_file
  /\ pc' = "w_header"
  /\ UNCHANGED <<variant, hvars, pvars, rvars, creds, exit_code, out_before, wfor>>

\* save_checkpoint: open(tmp, "w") creates or truncates the temp file
OpenTmp ==
  /\ pc = "w_open"
  /\ tmp_file' = [exists |-> TRUE, lines |-> <<>>]
  /\ pc' = "w_header"
  /\ UNCHANGED <<variant, hvars, pvars, rvars, creds, exit_code, out_file,
                 out_before, wfor>>

\* w.writeheader()
WriteHeader ==
  /\ pc = "w_header"
  /\ tmp_file' = [tmp_file EXCEPT !.lines = <<HEADERS>>]
  /\ pc' = "w_rows"
  /\ UNCHANGED <<variant, hvars, pvars, rvars, creds, exit_code, out_file,
                 out_before, wfor>>

\* for r in rows: w.writerow(...)
WriteRow ==
  /\ pc = "w_rows"
  /\ Len(tmp_file.lines) - 1 < Len(out_rows)
  /\ tmp_file' = [tmp_file EXCEPT
                    !.lines = Append(@, RowLine(out_rows[Len(tmp_file.lines)]))]
  /\ UNCHANGED <<variant, pc, hvars, pvars, rvars, creds, exit_code, out_file,
                 out_before, wfor>>

\* the with block is left and save_checkpoint returns to its caller
CloseTmp ==
  /\ pc = "w_rows"
  /\ Len(tmp_file.lines) - 1 = Len(out_rows)
  /\ IF wfor = "checkpoint"
     THEN pc' = "loop" /\ checkpoint' = out_rows
     ELSE pc' = "replace" /\ checkpoint' = checkpoint
  /\ UNCHANGED <<variant, hvars, rvars, records, args, idx, out_rows, counts,
                 mvars>>

\* write_final: os.replace(tmp, out_csv)
ReplaceOut ==
  /\ pc = "replace"
  /\ out_file' = tmp_file
  /\ tmp_file' = NoFile
  /\ pc' = "summary"
  /\ UNCHANGED <<variant, hvars, pvars, rvars, creds, exit_code, out_before, wfor>>

\* the summary line is printed and main returns: exit code 0
MainReturns ==
  /\ pc = "summary"
  /\ Exit(0)
  /\ UNCHANGED <<variant, hvars, pvars, rvars, creds, tmp_file, out_file,
                 out_before, wfor>>

\* the process is killed at any point of the run
Crash ==
  /\ pc \notin {"exited", "crashed"}
  /\ pc' = "crashed"
  /\ UNCHANGED <<variant, hvars, pvars, rvars, mvars>>

NextMain ==
  \/ LoadFails \/ Loaded \/ RequireCredentials
  \/ BeginRecord \/ EmitRow \/ Return \/ CallWriteFinal
  \/ OpenTmp \/ WriteHeader \/ WriteRow \/ CloseTmp \/ ReplaceOut \/ MainReturns
  \/ Crash

SpecMain == InitMain /\ [][NextMain]_vars

----------------------------------------------------------------------------
(* The query synthesizer on its own *)

InitBuild ==
  /\ variant \in Variants
  /\ pc = "build"
  /\ fin \in BuildInputs
  /\ fout = <<>>
  /\ ProcessIdle

BuildStep ==
  /\ pc = "build"
  /\ fout' = IF variant = "serper"
             THEN build_queries(fin.name, fin.location, fin.skills, fin.role, fin.country)
             ELSE build_cse_queries(fin.name, fin.location, fin.skills, fin.role,
                                    fin.country)
  /\ pc' = "built"
  /\ UNCHANGED <<variant, fin, pvars, rvars, mvars>>

NextBuild == BuildStep

SpecBuild == InitBuild /\ [][NextBuild]_vars

----------------------------------------------------------------------------
(* The selector on its own *)

InitPick ==
  /\ variant \in Variants
  /\ pc = "pick"
  /\ fin \in PickInputs
  /\ fout = <<>>
  /\ ProcessIdle

PickStep ==
  /\ pc = "pick"
  /\ fout' = IF variant = "serper"
             THEN pick_candidate(fin.full_name, fin.first_name, fin.loc_tokens,
                                 fin.skill_tokens, fin.candidates, fin.role_tokens)
             ELSE pick_best_linkedin_candidate(fin.full_name, fin.first_name,
                                               fin.loc_tokens, fin.skill_tokens,
                                               fin.candidates, fin.role_tokens)
  /\ pc' = "picked"
  /\ UNCHANGED <<variant, fin, pvars, rvars, mvars>>

NextPick == PickStep

SpecPick == InitPick /\ [][NextPick]_vars

----------------------------------------------------------------------------
(* The candidate extractor on its own *)

MaxItems == 6

\* payloads handed to the extractor: lists of result items, and the absent,
\* null and ill-formed ones
ExtractInputs ==
  {[shape |-> "list", items |-> it] : it \in SeqsUpTo({I_STRONG, I_PUB, I_COMPANY}, MaxItems)}
  \cup {[shape |-> "absent", items |-> <<>>],
        [shape |-> "null", items |-> <<>>],
        [shape |-> "list", items |-> <<I_WEAK, I_STRING>>]}

InitExtract ==
  /\ variant \in Variants
  /\ pc = "extract"
  /\ fin \in ExtractInputs
  /\ fout = <<>>
  /\ ProcessIdle

ExtractStep ==
  /\ pc = "extract"
  /\ fout' = ExtractFor(variant, fin)
  /\ pc' = "extracted"
  /\ UNCHANGED <<variant, fin, pvars, rvars, mvars>>

NextExtract == ExtractStep

SpecExtract == InitExtract /\ [][NextExtract]_vars

----------------------------------------------------------------------------
(* Properties of the selector (SpecPick) *)

\* the score the variant in use gives candidate c of the input, were it to
\* pass the gate
FinScore(c) ==
  IF variant = "serper"
  THEN SerperScore(fin.full_name, fin.first_name, fin.loc_tokens, fin.skill_tokens,
                   c, fin.role_tokens)
  ELSE CseScore(fin.full_name, fin.first_name, fin.loc_tokens, fin.skill_tokens,
                c, fin.role_tokens)

\* positions of the input candidates whose title contains the first name,
\* compared case-insensitively
FinGated ==
  {i \in 1..Len(fin.candidates) :
     Contains(Lower(fin.first_name), Lower(fin.candidates[i].title))}

\* C1: the selector never returns a candidate whose title does not contain
\* the first name as a case-insensitive substring, whatever the candidate's
\* other signals; what it returns is one of the candidates it was given.
C1_ReturnedTitleHasFirstName ==
  pc = "picked" =>
    \A k \in 1..Len(fout) :
      /\ Contains(Lower(fin.first_name), Lower(fout[k].title))
      /\ fout[k] \in Range(fin.candidates)

\* a candidate is returned although a candidate without the first name in
\* its title has strictly higher other signals
C1_Witness ==
  /\ pc = "picked"
  /\ fout # <<>>
  /\ \E i \in 1..Len(fin.candidates) :
       /\ i \notin FinGated
       /\ FinScore(fin.candidates[i]) > FinScore(fout[1])

\* C2: a candidate is returned exactly when the maximum score over the
\* gate-passing candidates is at least 5, and it is then the earliest
\* candidate, in input order, with that maximum score; otherwise none.
C2_EarliestMaximumOrNone ==
  pc = "picked" =>
    LET G == FinGated
        top == CHOOSE m \in {FinScore(fin.candidates[i]) : i \in G} :
                 \A i \in G : FinScore(fin.candidates[i]) <= m
        first == CHOOSE i \in G :
                   /\ FinScore(fin.candidates[i]) = top
                   /\ \A j \in G : FinScore(fin.candidates[j]) = top => i <= j
    IN  IF G # {} /\ top >= 5
        THEN fout = <<fin.candidates[first]>>
        ELSE fout = <<>>

\* two different gate-passing candidates tie at the maximum and the earlier
\* one is returned
C2_Witness ==
  /\ pc = "picked"
  /\ fout # <<>>
  /\ \E i, j \in FinGated :
       /\ i < j
       /\ fin.candidates[i] # fin.candidates[j]
       /\ fout[1] = fin.candidates[i]
       /\ FinScore(fin.candidates[i]) = FinScore(fin.candidates[j])
       /\ \A k \in FinGated : FinScore(fin.candidates[k]) <= FinScore(fin.candidates[i])

----------------------------------------------------------------------------
(* Properties of the query synthesizer (SpecBuild) *)

\* the assembled stages of the input, before de-duplication
FinAssembled ==
  IF variant = "serper"
  THEN AssembledQueries(fin.name, fin.location, fin.skills, fin.role, fin.country)
  ELSE CseAssembledQueries(fin.name, fin.location, fin.skills, fin.role, fin.country)

\* position of the first occurrence of q in the sequence qs
FirstAt(q, qs) == CHOOSE i \in 1..Len(qs) : qs[i] = q /\ \A j \in 1..(i - 1) : qs[j] # q

\* C3: the returned query list contains no string twice, lists strings of the
\* assembled stages in the order of their first occurrence without skipping
\* any, and has at most 8 entries for build_queries and at most 6 for
\* build_cse_queries.
C3_DistinctOrderedCapped ==
  pc = "built" =>
    LET asm == FinAssembled
        cap == IF variant = "serper" THEN 8 ELSE 6
    IN  /\ Len(fout) <= cap
        /\ \A i, j \in 1..Len(fout) : i # j => fout[i] # fout[j]
        /\ \A i \in 1..Len(fout) : fout[i] \in Range(asm)
        /\ \A i, j \in 1..Len(fout) : i < j => FirstAt(fout[i], asm) < FirstAt(fout[j], asm)
        /\ \A q \in Range(asm) :
             q \notin Range(fout) =>
               /\ Len(fout) = cap
               /\ \A i \in 1..Len(fout) : FirstAt(fout[i], asm) < FirstAt(q, asm)

\* the assembled stages repeat a string and hold more distinct strings than
\* the cap, so that both the seen set and the cap take effect
C3_Witness ==
  /\ pc = "built"
  /\ variant = "serper"
  /\ Len(fout) = 8
  /\ Cardinality(Range(FinAssembled)) > 8
  /\ Cardinality(Range(FinAssembled)) < Len(FinAssembled)

\* the name has exactly two whitespace-separated parts and the second is one
\* letter followed by a period
OneLetterSurname(name) ==
  LET parts == ReSplit(name, WS)
  IN  /\ Len(parts) = 2
      /\ Len(parts[2]) = 2
      /\ parts[2][1] \in Range(UPPER) \cup Range(LOWER)
      /\ parts[2][2] = "."

\* the truncated stage of the input
FinTruncatedStage ==
  IF variant = "serper"
  THEN TruncatedStage(fin.name, fin.location, fin.skills)
  ELSE CseTruncatedStage(fin.name, fin.location, fin.skills)

\* C4: for a name of two parts whose second part is a letter and a period the
\* name counts as truncated, every query of the first-name-only stage is in
\* the returned list, and each of them precedes every query that starts with
\* the quoted full name.
C4_TruncatedStageFirst ==
  (pc = "built" /\ OneLetterSurname(fin.name)) =>
    /\ IsTruncated(fin.name)
    /\ FinTruncatedStage # <<>>
    /\ Range(FinTruncatedStage) \subseteq Range(fout)
    /\ \A i, j \in 1..Len(fout) :
         (/\ fout[i] \in Range(FinTruncatedStage)
          /\ StartsWith(fout[j], QUOTE \o normalize_whitespace(fin.name) \o QUOTE))
         => i < j

\* a truncated name whose stages repeat a string and exceed the cap: the
\* first-name queries survive, quoted-full-name queries follow them
C4_Witness ==
  /\ pc = "built"
  /\ OneLetterSurname(fin.name)
  /\ Cardinality(Range(FinAssembled)) < Len(FinAssembled)
  /\ Cardinality(Range(FinAssembled)) > Len(fout)
  /\ Len(FinTruncatedStage) >= 3
  /\ \E j \in 1..Len(fout) :
       StartsWith(fout[j], QUOTE \o normalize_whitespace(fin.name) \o QUOTE)

----------------------------------------------------------------------------
(* Properties of process_records (Spec) *)

\* a record's row has been appended and no later record has been begun: the
\* per-record variables are those of the record of the last row
Emitted == pc \in {"loop", "done"} /\ out_rows # <<>>

\* a record is being processed
InRecord == pc \in {"query", "attempt", "emit"}

\* the record the per-record variables belong to (under Emitted or InRecord)
Rec == IF InRecord THEN records[idx + 1] ELSE records[idx]

LastRow == out_rows[Len(out_rows)]

\* C5: for a record whose derived name is empty the synthesizer returns no
\* query, no sleep, search call or retry is made for the record, and its row
\* has match_status not_found with empty linkedin_url and query_used.
C5_EmptyNameNoSearch ==
  /\ (InRecord \/ Emitted) =>
       (DeriveName(Rec) = <<>> =>
          /\ pc \notin {"query", "attempt"}
          /\ BuildFor(variant, Rec) = <<>>
          /\ queries = <<>>
          /\ calls = <<>>
          /\ trace = <<>>
          /\ attempts = 0)
  /\ \A k \in 1..Len(out_rows) :
       out_rows[k].name = <<>> =>
         /\ out_rows[k].match_status = "not_found"
         /\ out_rows[k].linkedin_url = <<>>
         /\ out_rows[k].query_used = <<>>

\* the row of a record with an empty name has been appended after the row of
\* a record that was searched and did not end in not_found
C5_Witness ==
  /\ Emitted
  /\ Len(out_rows) >= 2
  /\ DeriveName(Rec) = <<>>
  /\ LastRow.name = <<>>
  /\ LastRow.match_status = "not_found"
  /\ out_rows[Len(out_rows) - 1].match_status \in {"matched", "error", "needs_review"}

\* every query of the record was called, its last call succeeded and the
\* selector abstained on it
AllAbstained ==
  /\ queries # <<>>
  /\ Len(calls) = Len(queries)
  /\ \A k \in 1..Len(calls) : calls[k].outcome = "abstained"

\* C6: when every query of a record was called successfully and the selector
\* abstained on each, the record's row has an empty linkedin_url and its
\* match_status is needs_review if some call gave a non-empty candidate list
\* and not_found if every call gave an empty one.
C6_ReviewIffCandidatesSeen ==
  (Emitted /\ AllAbstained) =>
    /\ LastRow.linkedin_url = <<>>
    /\ LastRow.match_status =
         IF \E k \in 1..Len(calls) : calls[k].nonempty
         THEN "needs_review" ELSE "not_found"

\* the selector abstained on every query; an earlier call gave candidates and
\* the last one gave none
C6_Witness ==
  /\ Emitted
  /\ AllAbstained
  /\ Len(calls) >= 2
  /\ \E k \in 1..(Len(calls) - 1) : calls[k].nonempty
  /\ ~calls[Len(calls)].nonempty
  /\ LastRow.match_status = "needs_review"

IsCall(e) == e.ev = "call"

\* the number of search calls among the first i events of the trace
CallsUpTo(i) == Len(SelectSeq(SubSeq(trace, 1, i), IsCall))

\* the trace of a query answered 429, 429 and then 200
TwiceLimitedThenAnswered ==
  /\ Len(trace) = 6
  /\ trace[1].ev = "sleep"
  /\ trace[2].ev = "call" /\ trace[2].n = 429
  /\ trace[3].ev = "backoff" /\ trace[3].n = 5
  /\ trace[4].ev = "call" /\ trace[4].n = 429
  /\ trace[5].ev = "backoff" /\ trace[5].n = 10
  /\ trace[6].ev = "call" /\ trace[6].n = 200

\* C7 (find_linkedins.py): a query makes at most 3 search calls, all on the
\* same query; the k-th call, k < 3, that fails with 429, 500, 502, 503 or 504
\* is followed by a wait of min(60, 5*2^(k-1)) seconds and another call; a
\* third such failure makes the record error; after 429, 429 and an answer
\* the waits are 5 and 10 seconds and the answer is extracted and scored as
\* any answer is, the record not being error.
C7_BoundedRetryWithBackoff ==
  variant = "serper" =>
    /\ attempts <= 3
    /\ CallsUpTo(Len(trace)) = attempts
    /\ \A i, j \in 1..Len(trace) : trace[i].q = trace[j].q
    /\ \A i \in 1..Len(trace) :
         (trace[i].ev = "call" /\ trace[i].n \in {429, 500, 502, 503, 504}) =>
           LET k == CallsUpTo(i)
           IN  IF k < 3
               THEN /\ i < Len(trace)
                    /\ trace[i + 1].ev = "backoff"
                    /\ trace[i + 1].n = Min(60, 5 * 2^(k - 1))
                    /\ (i + 1 = Len(trace) => pc = "attempt")
                    /\ (i + 1 < Len(trace) => trace[i + 2].ev = "call")
               ELSE /\ i = Len(trace)
                    /\ pc \in {"emit", "loop", "done"}
                    /\ match_status = "error"
                    /\ (Emitted => LastRow.match_status = "error")
    /\ \A i \in 1..Len(trace) :
         trace[i].ev = "backoff" => (i > 1 /\ trace[i - 1].ev = "call")
    /\ TwiceLimitedThenAnswered =>
         LET ex == extract_candidates(search_serper(resp).json)
         IN  ~ex.raised =>
               /\ match_status # "error"
               /\ last_cands = ex.cands
               /\ picked = PickFor("serper", Rec, ex.cands)
               /\ calls[Len(calls)].outcome =
                    IF picked # <<>> THEN "matched" ELSE "abstained"
               /\ calls[Len(calls)].nonempty = (ex.cands # <<>>)
               /\ picked # <<>> =>
                    (match_status = "matched" /\ best_url = picked[1].url)

\* 429, 429, then an answer whose candidates give a match
C7_Witness ==
  /\ variant = "serper"
  /\ TwiceLimitedThenAnswered
  /\ attempts = 3
  /\ Emitted
  /\ LastRow.match_status = "matched"
  /\ LastRow.linkedin_url = picked[1].url

\* C8: a search call that fails with a status other than 429 and 5xx, or
\* without a status, is the last call of its record: the query is not called
\* again, no later query is called, the record is error and query_used is
\* the failing query.
C8_PermanentFailureNotRetried ==
  \A i \in 1..Len(trace) :
    (/\ trace[i].ev = "call"
     /\ trace[i].n # 200
     /\ trace[i].n # 429
     /\ ~(trace[i].n >= 500 /\ trace[i].n <= 599)) =>
      /\ i = Len(trace)
      /\ pc \in {"emit", "loop", "done"}
      /\ match_status = "error"
      /\ query_used = queries[trace[i].q]
      /\ calls[Len(calls)].query = queries[trace[i].q]
      /\ calls[Len(calls)].outcome = "raised"

\* C9: the rows are those of the records from index start on, one per record
\* and in input order; when process_records returns there is a row for every
\* index in [start, min(len(records), start+limit)); a record is begun with
\* fresh per-record values whatever the outcome of the record before it.
C9_OneRowPerRecordInOrder ==
  LET first == IF args.start > 0 THEN args.start ELSE 0
      last == IF args.limit = <<>> THEN Len(records)
              ELSE Min(Len(records), first + args.limit[1])
      n == Len(out_rows)
  IN  /\ idx = first + n
      /\ first + n <= Max(first, last)
      /\ \A k \in 1..n :
           /\ out_rows[k].externalId = records[first + k].externalId
           /\ out_rows[k].name = DeriveName(records[first + k])
           /\ out_rows[k].match_status \in {"matched", "needs_review", "not_found", "error"}
      /\ pc = "done" => first + n = Max(first, last)
      /\ counts.processed = n
      /\ (InRecord /\ calls = <<>>) =>
           /\ match_status = "not_found"
           /\ best_url = <<>>
           /\ query_used = <<>>
           /\ all_candidates = <<>>
           /\ queries = BuildFor(variant, Rec)

\* the run has returned; a record that ended in error is followed by a
\* record that was searched and matched
C9_Witness ==
  /\ pc = "done"
  /\ \E k \in 1..(Len(out_rows) - 1) :
       /\ out_rows[k].match_status = "error"
       /\ out_rows[k + 1].match_status = "matched"

\* C10: the k-th query called for a record is the k-th query of the
\* synthesizer's list; every query before the last called one ended with the
\* selector abstaining; when the selector returns a candidate on a query the
\* record is matched with that candidate's url and that query as query_used,
\* and no further query of the record is called.
C10_FirstMatchWins ==
  /\ Len(calls) <= Len(queries)
  /\ \A k \in 1..Len(calls) :
       /\ queries = BuildFor(variant, Rec)
       /\ calls[k].query = queries[k]
       /\ k < Len(calls) => calls[k].outcome = "abstained"
       /\ calls[k].outcome = "matched" =>
            /\ pc \in {"emit", "loop", "done"}
            /\ picked = PickFor(variant, Rec, last_cands)
            /\ picked # <<>>
            /\ match_status = "matched"
            /\ best_url = picked[1].url
            /\ query_used = queries[k]
            /\ Emitted =>
                 /\ LastRow.match_status = "matched"
                 /\ LastRow.linkedin_url = picked[1].url
                 /\ LastRow.query_used = queries[k]

\* the second of three queries matches after the first gave candidates the
\* selector abstained on; the third is never called
C10_Witness ==
  /\ Emitted
  /\ Len(queries) = 3
  /\ Len(calls) = 2
  /\ calls[1].nonempty
  /\ calls[2].outcome = "matched"
  /\ LastRow.query_used = queries[2]

\* C11: in every output row match_status is matched, needs_review, not_found
\* or error; linkedin_url is non-empty exactly when match_status is matched,
\* and it then starts with a canonical profile prefix.
C11_UrlIffMatched ==
  \A k \in 1..Len(out_rows) :
    LET row == out_rows[k]
    IN  /\ row.match_status \in {"matched", "needs_review", "not_found", "error"}
        /\ (row.linkedin_url # <<>>) <=> (row.match_status = "matched")
        /\ row.match_status = "matched" =>
             \E p \in {WWW_IN, BARE_IN, WWW_PUB, BARE_PUB} : StartsWith(row.linkedin_url, p)

\* a needs_review row, whose audit candidates have urls, next to a matched row
C11_Witness ==
  /\ Len(out_rows) >= 2
  /\ \E j, k \in 1..Len(out_rows) :
       /\ out_rows[j].match_status = "matched"
       /\ out_rows[k].match_status = "needs_review"
       /\ out_rows[k].candidates_json # <<>>

\* C12: the query_used of a needs_review row is the first query of the record
\* whose search call gave a non-empty candidate list.
C12_ReviewNamesProducingQuery ==
  (Emitted /\ LastRow.match_status = "needs_review") =>
    \E k \in 1..Len(calls) :
      /\ calls[k].nonempty
      /\ \A j \in 1..(k - 1) : ~calls[j].nonempty
      /\ LastRow.query_used = calls[k].query

----------------------------------------------------------------------------
(* Properties of the candidate extractor (SpecExtract) *)

\* s up to, and without, its first "?" or "#"
BeforeQueryOrFragment(s) ==
  LET stops == {i \in 1..Len(s) : s[i] \in {"?", "#"}}
  IN  IF stops = {} THEN s
      ELSE SubSeq(s, 1, (CHOOSE i \in stops : \A j \in stops : i <= j) - 1)

\* the lower-cased, cut link of the item starts with https://www.linkedin.com
\* or https://linkedin.com followed by /in/ or /pub/
Qualifies(item) ==
  \E p \in {WWW_IN, BARE_IN, WWW_PUB, BARE_PUB} :
    StartsWith(BeforeQueryOrFragment(Lower(item.link)), p)

\* the payload is a list of mappings
WellFormed(payload) ==
  payload.shape = "list" /\ \A i \in 1..Len(payload.items) : payload.items[i].mapping

\* C13: for a well-formed payload the extractor returns the first 5
\* qualifying items in the provider's order, none skipped and no other item
\* included, each with the lower-cased link cut at the first "?" or "#" as
\* its url.
C13_FirstFiveQualifying ==
  (pc = "extracted" /\ WellFormed(fin)) =>
    LET q == SelectSeq(fin.items, Qualifies)
        want == [i \in 1..Min(5, Len(q)) |->
                   [url |-> BeforeQueryOrFragment(Lower(q[i].link)),
                    title |-> q[i].title, snippet |-> q[i].snippet]]
    IN  /\ ~fout.raised
        /\ Len(fout.cands) <= 5
        /\ fout.cands = want

\* C14: for a payload whose items list is absent, null or not a list of
\* mappings the extractor does not fail, and for an absent or null list it
\* returns no candidate.
C14_IllFormedPayloadGivesNothing ==
  (pc = "extracted" /\ ~WellFormed(fin)) =>
    /\ ~fout.raised
    /\ fin.shape # "list" => fout.cands = <<>>

----------------------------------------------------------------------------
(* Properties of main and the persistence sink (SpecMain) *)

\* the complete file of the rows: the header line, then one line per row
FileOf(rows) ==
  [exists |-> TRUE,
   lines |-> << <<"externalId", "name", "location", "linkedin_url", "match_status",
                  "query_used", "candidates_json">> >>
             \o [i \in 1..Len(rows) |->
                   [externalId |-> rows[i].externalId, name |-> rows[i].name,
                    location |-> rows[i].location,
                    linkedin_url |-> rows[i].linkedin_url,
                    match_status |-> rows[i].match_status,
                    query_used |-> rows[i].query_used,
                    candidates_json |-> rows[i].candidates_json]]]

\* C15: at every step, a crash included, the file at the output path is the
\* file that was there when the run started or the complete file of the
\* in-memory rows; it changes only by the rename of a temp file that holds
\* that complete file; after a normal return it is the complete file, also
\* when a checkpoint of the same rows was written just before.
C15_OutputReplacedAtomically ==
  [][/\ out_file' = out_before' \/ out_file' = FileOf(out_rows')
     /\ out_file' # out_file =>
          /\ pc = "replace"
          /\ tmp_file = FileOf(out_rows)
          /\ out_file' = tmp_file
          /\ ~tmp_file'.exists
     /\ exit_code' = <<0>> => out_file' = FileOf(out_rows')]_vars

\* the run has returned normally over an older output file; the last
\* checkpoint held the same rows as the final file
C15_Witness ==
  /\ pc = "exited"
  /\ exit_code = <<0>>
  /\ out_before = OldFile
  /\ Len(out_rows) = MaxRecords
  /\ checkpoint = out_rows
  /\ out_file = FileOf(out_rows)
  /\ out_file # out_before

\* C16: a run without the required credentials, whatever the input holds
\* (zero records included), processes no record, makes no search call and
\* exits with code 2; code 1 is the exit of a failed load only, and every
\* other run exits with code 0.
C16_MissingCredentialsExitTwo ==
  [][/\ (exit_code = <<>> /\ exit_code' # <<>>) =>
          exit_code' = IF pc = "main" THEN <<1>>
                       ELSE IF ~creds THEN <<2>> ELSE <<0>>
     /\ ~creds' => out_rows' = <<>> /\ calls' = <<>>]_vars

\* the same statement for the runs whose input holds at least one record
C16_HoldsWithRecords ==
  [][Len(records) > 0 =>
       /\ (exit_code = <<>> /\ exit_code' # <<>>) =>
            exit_code' = IF pc = "main" THEN <<1>>
                         ELSE IF ~creds THEN <<2>> ELSE <<0>>
       /\ ~creds' => out_rows' = <<>> /\ calls' = <<>>]_vars

\* the file f holds the header and then, in order, at least the given rows
HoldsRows(f, rows) ==
  /\ f.exists
  /\ Len(f.lines) >= 1 + Len(rows)
  /\ SubSeq(f.lines, 1, 1 + Len(rows)) = FileOf(rows).lines

\* C17: once a checkpoint of the first k rows has been written, after a
\* crash at any later step of the run, the middle of a later save_checkpoint
\* included, the temp file or the output file still holds the header and at
\* least those k rows.
C17_CheckpointedRowsSurvive ==
  (pc = "crashed" /\ checkpoint # <<>>) =>
     HoldsRows(tmp_file, checkpoint) \/ HoldsRows(out_file, checkpoint)

----------------------------------------------------------------------------
(* Further properties of process_records (Spec) *)

\* C18 (find_linkedins_cse.py): the first search call of a query that
\* fails with 429 or a 5xx status does not make the record error: it is
\* followed by a wait and by another call on the same query.
C18_CseTransientRetried ==
  variant = "cse" =>
    \A i \in 1..Len(trace) :
      (/\ trace[i].ev = "call"
       /\ CallsUpTo(i) = 1
       /\ (trace[i].n = 429 \/ (trace[i].n >= 500 /\ trace[i].n <= 599))) =>
        /\ i < Len(trace)
        /\ trace[i + 1].ev = "backoff"
        /\ trace[i + 1].q = trace[i].q
        /\ (i + 1 = Len(trace) => (pc = "attempt" /\ match_status # "error"))
        /\ (i + 1 < Len(trace) => (trace[i + 2].ev = "call" /\ trace[i + 2].q = trace[i].q))

\* the search call made in this step returned and its answer was extracted
CallAnswered == pc = "attempt" /\ calls'[Len(calls')].outcome \in {"matched", "abstained"}

\* C20: the candidate list of a record's row is the list of the first
\* search call of the record that gave a non-empty list: it is set by that
\* call, no later call of the record replaces it (the matching call
\* included), it holds at most 5 candidates, and it is empty only when no
\* answered call of the record gave candidates.
C20_AuditListIsFirstNonEmpty ==
  [][/\ (CallAnswered /\ all_candidates = <<>>) => all_candidates' = last_cands'
     /\ (InRecord /\ all_candidates # <<>>) => all_candidates' = all_candidates
     /\ Len(all_candidates') <= 5
     /\ (pc = "emit" /\ pc' # "emit") =>
          /\ out_rows'[Len(out_rows')].candidates_json = all_candidates
          /\ (all_candidates = <<>>) = (\A k \in 1..Len(calls) : ~calls[k].nonempty)]_vars

\* the row of a matched record holds the candidates of an earlier call, and
\* the call that matched gave another non-empty list
C20_Witness ==
  /\ Emitted
  /\ Len(calls) >= 2
  /\ LastRow.match_status = "matched"
  /\ last_cands # <<>>
  /\ LastRow.candidates_json # <<>>
  /\ LastRow.candidates_json # last_cands
  /\ LastRow.candidates_json = all_candidates

----------------------------------------------------------------------------
(* Further properties of the selector (SpecPick) *)

\* positions of the parts of the lower-cased full name that are longer than
\* one character and appear in the candidate's title and snippet
PartsFound(full_name, cand) ==
  LET parts == Split(Lower(full_name))
  IN  {i \in 1..Len(parts) :
         Len(parts[i]) > 1 /\ Contains(parts[i], Lower(cand.title) \o <<" ">> \o Lower(cand.snippet))}

\* the bonus for the parts of the name: two or more parts found give the
\* full bonus (3 in find_linkedins.py, 4 in find_linkedins_cse.py); one part
\* found gives 1 when that part is longer than 2 characters
PartsBonusByMatchedPart(full_name, cand) ==
  LET parts == Split(Lower(full_name))
      found == PartsFound(full_name, cand)
  IN  IF Len(parts) <= 1 THEN 0
      ELSE IF Cardinality(found) >= 2 THEN (IF variant = "serper" THEN 3 ELSE 4)
      ELSE IF \E i \in found : Len(parts[i]) > 2 THEN 1
      ELSE 0

\* C19: the score of a gate-passing candidate holds, for a name of more than
\* one part, the full bonus when two or more parts longer than one character
\* appear in title and snippet, 1 when exactly one appears and that part is
\* longer than 2 characters, and nothing otherwise; the 1 depends on the
\* length of the part that matched only.
C19_BonusByMatchedPartLength ==
  pc = "picked" =>
    \A i \in FinGated :
      LET c == fin.candidates[i]
      IN  FinScore(c) =
            3 + PartsBonusByMatchedPart(fin.full_name, c)
              + LocationBonus(fin.loc_tokens, c)
              + ContextBonus(IF variant = "serper" THEN SerperContextKeywords
                             ELSE CseContextKeywords, c)
              + (IF variant = "serper"
                 THEN SerperUrlBonus(fin.full_name, fin.first_name, c)
                 ELSE CseUrlBonus(fin.full_name, fin.first_name, c))
              + TokenBonus(fin.role_tokens, c)
              + TokenBonus(fin.skill_tokens, c)

====
